---- MODULE Spec2Model ----
(***************************************************************************)
(* Model of src/utils.py: create_tar (directory -> tar.gz archive) and     *)
(* endpoint_creation_wait (poll describe_endpoint until the status leaves  *)
(* "Creating").                                                            *)
(*                                                                         *)
(* Strings are sequences of one-character strings, so that the code's      *)
(* character-level tests (first character of a path string, the "*.*"      *)
(* pattern, os.path.join, lstrip) are computed and not assumed.            *)
(* A path is the sequence of its parts, as pathlib's Path.parts.           *)
(***************************************************************************)
EXTENDS Integers, Sequences, FiniteSets, TLC

VARIABLES tree, scanorder, tarfile_name, file_list, idx, archive, tpc,
          wpc, remote, resp, ret, log

vars == <<tree, scanorder, tarfile_name, file_list, idx, archive, tpc,
          wpc, remote, resp, ret, log>>

tarvars == <<tree, scanorder, tarfile_name, file_list, idx, archive, tpc>>

waitvars == <<wpc, remote, resp, ret, log>>

----------------------------------------------------------------------------
(* Bounds *)

\* largest number of files and directories below the source directory
MaxNodes == 3

\* largest number of describe calls recorded in the event log
MaxCalls == 4

----------------------------------------------------------------------------
(* Strings and paths *)

\* file and directory names: "s" (no dot), ".h" (hidden), "a.t" (dotted)
Names == { <<"s">>, <<".", "h">>, <<"a", ".", "t">> }

\* the anchor part of an absolute path
ROOT == <<"/">>

\* the source directory handed to create_tar: Path("/s")
local_path == <<ROOT, <<"s">> >>

\* code point of a character, for Python's string ordering
CharCode(c) ==
    CASE c = "." -> 46
      [] c = "/" -> 47
      [] c = "a" -> 97
      [] c = "h" -> 104
      [] c = "s" -> 115
      [] c = "t" -> 116

RECURSIVE StrLess(_, _)
\* a < b on Python strings
StrLess(a, b) ==
    IF b = <<>> THEN FALSE
    ELSE IF a = <<>> THEN TRUE
    ELSE IF Head(a) = Head(b) THEN StrLess(Tail(a), Tail(b))
    ELSE CharCode(Head(a)) < CharCode(Head(b))

RECURSIVE JoinParts(_)
\* "/".join(parts)
JoinParts(parts) ==
    IF parts = <<>> THEN <<>>
    ELSE IF Len(parts) = 1 THEN parts[1]
    ELSE parts[1] \o <<"/">> \o JoinParts(Tail(parts))

\* str(path)
PathStr(p) ==
    IF p = <<>> THEN <<".">>
    ELSE IF Head(p) = ROOT THEN <<"/">> \o JoinParts(Tail(p))
    ELSE JoinParts(p)

IsPrefix(a, b) == Len(a) <= Len(b) /\ SubSeq(b, 1, Len(a)) = a

\* k.relative_to(base); glob only yields paths below base
relative_to(k, base) ==
    IF IsPrefix(base, k) THEN SubSeq(k, Len(base) + 1, Len(k))
    ELSE <<<<"ValueError">>>>

\* os.path.join(a, f) for a relative name f
path_join(a, f) ==
    IF a = <<>> \/ a[Len(a)] = "/" THEN a \o f ELSE a \o <<"/">> \o f

RECURSIVE lstrip_slash(_)
\* s.lstrip("/")
lstrip_slash(s) ==
    IF s # <<>> /\ Head(s) = "/" THEN lstrip_slash(Tail(s)) ELSE s

\* fnmatch of a name against the pattern "*.*": the name contains a dot
MatchesPattern(name) == \E i \in 1..Len(name) : name[i] = "."

----------------------------------------------------------------------------
(* The directory tree below local_path *)

Node(p, d) == [path |-> p, isdir |-> d]

Exists(t, p) == \E x \in t : x.path = p

IsDir(t, p) == p = local_path \/ \E x \in t : x.path = p /\ x.isdir

DirPaths(t) == {local_path} \cup { x.path : x \in { y \in t : y.isdir } }

Candidates(t) ==
    { Node(par \o <<nm>>, d) : par \in DirPaths(t), nm \in Names, d \in BOOLEAN }

Extensions(t) ==
    { t \cup {c} : c \in { c \in Candidates(t) : ~Exists(t, c.path) } }

RECURSIVE TreesOfSize(_)
TreesOfSize(n) ==
    IF n = 0 THEN { {} }
    ELSE UNION { Extensions(t) : t \in TreesOfSize(n - 1) }

\* every directory tree of at most MaxNodes entries
Trees == UNION { TreesOfSize(n) : n \in 0..MaxNodes }

\* an archive path outside the source directory: "/t"
OutsideTar == <<ROOT, <<"t">> >>

\* the archive paths create_tar may be given for tree t: a path outside
\* the source directory, or a name in one of its directories (a new name,
\* an existing file such as the archive of an earlier call, or a directory)
TarfileNames(t) ==
    {OutsideTar} \cup { par \o <<nm>> : par \in DirPaths(t), nm \in Names }

\* the orders in which the file system may list the names of a directory
ScanOrders ==
    { s \in [1..Cardinality(Names) -> Names] :
        \A i, j \in 1..Cardinality(Names) : i # j => s[i] # s[j] }

\* the names in directory d
listdir(t, d) == { nm \in Names : Exists(t, d \o <<nm>>) }

\* os.scandir(d): the names in d, in the file system's order
scandir(t, order, d) ==
    SelectSeq(order, LAMBDA nm : nm \in listdir(t, d))

RECURSIVE sorted(_)
\* sorted(names)
sorted(S) ==
    IF S = {} THEN <<>>
    ELSE LET m == CHOOSE x \in S : \A y \in S : y = x \/ StrLess(x, y)
         IN  <<m>> \o sorted(S \ {m})

----------------------------------------------------------------------------
(* local_path.glob("**/*.*") *)

RECURSIVE iterate_directories(_, _, _), iterate_entries(_, _, _, _)
\* "**": the directory itself, then its subdirectories, pre-order
iterate_directories(t, order, d) ==
    <<d>> \o iterate_entries(t, order, d, scandir(t, order, d))

iterate_entries(t, order, d, ents) ==
    IF ents = <<>> THEN <<>>
    ELSE (IF IsDir(t, d \o <<Head(ents)>>)
            THEN iterate_directories(t, order, d \o <<Head(ents)>>)
            ELSE <<>>)
         \o iterate_entries(t, order, d, Tail(ents))

\* "*.*" in one directory: the entries, files and directories alike, whose
\* name matches
select_from(t, order, d) ==
    LET hits == SelectSeq(scandir(t, order, d), MatchesPattern)
    IN  [i \in 1..Len(hits) |-> d \o <<hits[i]>>]

RECURSIVE glob_over(_, _, _)
glob_over(t, order, dirs) ==
    IF dirs = <<>> THEN <<>>
    ELSE select_from(t, order, Head(dirs)) \o glob_over(t, order, Tail(dirs))

glob(t, order) == glob_over(t, order, iterate_directories(t, order, local_path))

\* the condition of the list comprehension: the first character of the
\* path relative to local_path is not a dot
KeepPath(k) == PathStr(relative_to(k, local_path))[1] # "."

\* file_list = [k for k in glob if ...]
FileList(t, order) == SelectSeq(glob(t, order), KeepPath)

----------------------------------------------------------------------------
(* archive.add(k, arcname=...) *)

\* a faulty arcname: the path relative to the parent of local_path, which
\* keeps the source directory's own name in front
ArcNameWithRoot(k) ==
    PathStr(relative_to(k, SubSeq(local_path, 1, Len(local_path) - 1)))

\* arcname=f"{k.relative_to(local_path)}"
ArcName(k) == PathStr(relative_to(k, local_path))

\* an archive member: its name in the archive and the path it was read from
Member(arcname, name) == [name |-> lstrip_slash(arcname), src |-> name]

\* TarFile.add's first test, os.path.abspath(name) == self.name: the path
\* to add is the archive being written
IsArchiveItself(self_name, name) == PathStr(name) = PathStr(self_name)

RECURSIVE add(_, _, _, _), add_children(_, _, _, _, _)
\* TarFile.add(name, arcname) on the archive self_name: nothing for the
\* archive itself; otherwise the member and, for a directory, every entry of
\* it in sorted order, recursively
add(t, self_name, name, arcname) ==
    IF IsArchiveItself(self_name, name) THEN <<>>
    ELSE <<Member(arcname, name)>>
         \o (IF IsDir(t, name)
               THEN add_children(t, self_name, name, arcname,
                                 sorted(listdir(t, name)))
               ELSE <<>>)

add_children(t, self_name, name, arcname, fs) ==
    IF fs = <<>> THEN <<>>
    ELSE add(t, self_name, name \o <<Head(fs)>>, path_join(arcname, Head(fs)))
         \o add_children(t, self_name, name, arcname, Tail(fs))

\* tarfile.open(tarfile_name, mode="w:gz") raises when the path is a
\* directory
OpenFails(t, p) == \E x \in t : x.path = p /\ x.isdir

\* the tree once the archive file is created or truncated at p
WithArchiveFile(t, p) ==
    IF IsPrefix(local_path, p) THEN t \cup {Node(p, FALSE)} ELSE t

----------------------------------------------------------------------------
(* create_tar *)

InitTarVars ==
    /\ tree \in Trees
    /\ scanorder \in ScanOrders
    /\ tarfile_name \in TarfileNames(tree)
    /\ file_list = <<>>
    /\ idx = 0
    /\ archive = <<>>
    /\ tpc = "start"

\* line 20: build file_list
CreateTarGlob ==
    /\ tpc = "start"
    /\ file_list' = FileList(tree, scanorder)
    /\ tpc' = "open"
    /\ UNCHANGED <<tree, scanorder, tarfile_name, idx, archive>>

\* line 21: open the archive for writing, which creates or truncates the
\* file; the for loop starts
CreateTarOpen ==
    /\ tpc = "open"
    /\ ~OpenFails(tree, tarfile_name)
    /\ tree' = WithArchiveFile(tree, tarfile_name)
    /\ idx' = 1
    /\ tpc' = "adding"
    /\ UNCHANGED <<scanorder, tarfile_name, file_list, archive>>

\* line 21: tarfile.open raises, the error leaves create_tar
CreateTarOpenFails ==
    /\ tpc = "open"
    /\ OpenFails(tree, tarfile_name)
    /\ tpc' = "raised"
    /\ UNCHANGED <<tree, scanorder, tarfile_name, file_list, idx, archive>>

\* line 22-24: one iteration of the for loop
CreateTarAdd ==
    /\ tpc = "adding"
    /\ idx <= Len(file_list)
    /\ archive' = archive \o add(tree, tarfile_name, file_list[idx],
                               ArcName(file_list[idx]))
    /\ idx' = idx + 1
    /\ UNCHANGED <<tree, scanorder, tarfile_name, file_list, tpc>>

\* line 21, 25-26: the loop is exhausted, the archive is closed
CreateTarClose ==
    /\ tpc = "adding"
    /\ idx > Len(file_list)
    /\ tpc' = "closed"
    /\ UNCHANGED <<tree, scanorder, tarfile_name, file_list, idx, archive>>

----------------------------------------------------------------------------
(* endpoint_creation_wait *)

\* the values of EndpointStatus the service reports
Statuses == {"Creating", "InService", "Failed", "OutOfService"}

\* the fields of a response other than the status, passed through unread
Stamps == {1, 2}

\* time.sleep(15)
SleepSeconds == 15

\* sm_client.describe_endpoint's response
Response(s, v) == [EndpointStatus |-> s, LastModifiedTime |-> v]

\* no response object bound yet
NoResponse == [EndpointStatus |-> "none", LastModifiedTime |-> 0]

\* one observable event of an invocation: a describe call that returned
\* resp, a describe call that raised, a print of text, a sleep of secs
Event(op, r, text, secs) == [op |-> op, resp |-> r, text |-> text, secs |-> secs]

DescribeEvent(r) == Event("describe", r, "", 0)

ErrorEvent == Event("describe_error", NoResponse, "", 0)

PrintEvent(text) == Event("print", NoResponse, text, 0)

SleepEvent(secs) == Event("sleep", NoResponse, "", secs)

IsCall(e) == e.op \in {"describe", "describe_error"}

\* the describe calls made so far
Calls(l) == SelectSeq(l, IsCall)

\* the event log, extended when the invocation is observed
Logged(rec, e) == IF rec THEN log \o <<e>> ELSE log

\* the number of recorded calls stays within MaxCalls
CallAllowed(rec) == rec => Len(Calls(log)) < MaxCalls

InitWaitVars ==
    /\ wpc = "first"
    /\ remote \in Statuses
    /\ resp = NoResponse
    /\ ret = NoResponse
    /\ log = <<>>

\* the service changes the endpoint's status on its own
ServiceChanges ==
    /\ wpc \notin {"done", "raised"}
    /\ remote' \in Statuses \ {remote}
    /\ UNCHANGED <<wpc, resp, ret, log>>

\* a faulty describe call: an error is swallowed and the call is retried
describe_endpoint_retry(rec, next) ==
    /\ CallAllowed(rec)
    /\ \/ \E v \in Stamps :
            /\ resp' = Response(remote, v)
            /\ log' = Logged(rec, DescribeEvent(resp'))
            /\ wpc' = next
       \/ /\ resp' = resp
          /\ log' = Logged(rec, ErrorEvent)
          /\ wpc' = wpc
    /\ UNCHANGED <<remote, ret>>

\* sm_client.describe_endpoint(...): returns the current status, or raises
\* and leaves the function
describe_endpoint(rec, next) ==
    /\ CallAllowed(rec)
    /\ \/ \E v \in Stamps :
            /\ resp' = Response(remote, v)
            /\ log' = Logged(rec, DescribeEvent(resp'))
            /\ wpc' = next
       \/ /\ resp' = resp
          /\ log' = Logged(rec, ErrorEvent)
          /\ wpc' = "raised"
    /\ UNCHANGED <<remote, ret>>

\* line 33: the first describe call
DescribeFirst(rec) ==
    /\ wpc = "first"
    /\ describe_endpoint(rec, "test")

\* a faulty while condition: a failed endpoint is polled again as well
StillCreatingOrFailed(r) == r.EndpointStatus \in {"Creating", "Failed"}

\* line 35: the while condition
StillCreating(r) == r.EndpointStatus = "Creating"

\* line 35 and 40: test the condition; leave the loop and return the response
WhileTest ==
    /\ wpc = "test"
    /\ IF StillCreating(resp)
         THEN wpc' = "requery" /\ ret' = ret
         ELSE wpc' = "done" /\ ret' = resp
    /\ UNCHANGED <<remote, resp, log>>

\* line 36: the describe call of the loop body
DescribeAgain(rec) ==
    /\ wpc = "requery"
    /\ describe_endpoint(rec, "print")

\* line 37: print the status just received
PrintStatus(rec) ==
    /\ wpc = "print"
    /\ log' = Logged(rec, PrintEvent(resp.EndpointStatus))
    /\ wpc' = "sleep"
    /\ UNCHANGED <<remote, resp, ret>>

\* a faulty loop: one attempt only, the function returns after the sleep
SleepGivesUp(rec) ==
    /\ wpc = "sleep"
    /\ log' = Logged(rec, SleepEvent(SleepSeconds))
    /\ wpc' = "done"
    /\ ret' = resp
    /\ UNCHANGED <<remote, resp>>

\* line 38: sleep, then back to the while condition
Sleep(rec) ==
    /\ wpc = "sleep"
    /\ log' = Logged(rec, SleepEvent(SleepSeconds))
    /\ wpc' = "test"
    /\ UNCHANGED <<remote, resp, ret>>

----------------------------------------------------------------------------
(* Specifications *)

\* create_tar on every tree; the waiter is not running
InitTar ==
    /\ InitTarVars
    /\ wpc = "first" /\ remote = "Creating"
    /\ resp = NoResponse /\ ret = NoResponse /\ log = <<>>

NextTar ==
    \/ CreateTarGlob /\ UNCHANGED waitvars
    \/ CreateTarOpen /\ UNCHANGED waitvars
    \/ CreateTarOpenFails /\ UNCHANGED waitvars
    \/ CreateTarAdd /\ UNCHANGED waitvars
    \/ CreateTarClose /\ UNCHANGED waitvars

SpecTar == InitTar /\ [][NextTar]_vars

\* endpoint_creation_wait against a service that changes status at will;
\* create_tar is not running
InitWait ==
    /\ InitWaitVars
    /\ tree = {} /\ scanorder = CHOOSE s \in ScanOrders : TRUE
    /\ tarfile_name = OutsideTar
    /\ file_list = <<>> /\ idx = 0 /\ archive = <<>> /\ tpc = "start"

\* an observed invocation: every call, print and sleep is logged
NextWait ==
    \/ ServiceChanges /\ UNCHANGED tarvars
    \/ DescribeFirst(TRUE) /\ UNCHANGED tarvars
    \/ WhileTest /\ UNCHANGED tarvars
    \/ DescribeAgain(TRUE) /\ UNCHANGED tarvars
    \/ PrintStatus(TRUE) /\ UNCHANGED tarvars
    \/ Sleep(TRUE) /\ UNCHANGED tarvars

SpecWait == InitWait /\ [][NextWait]_vars

\* the steps of the waiter itself, unobserved and so without a bound
WaiterStep ==
    \/ DescribeFirst(FALSE) /\ UNCHANGED tarvars
    \/ WhileTest /\ UNCHANGED tarvars
    \/ DescribeAgain(FALSE) /\ UNCHANGED tarvars
    \/ PrintStatus(FALSE) /\ UNCHANGED tarvars
    \/ Sleep(FALSE) /\ UNCHANGED tarvars

NextWaitLive ==
    \/ ServiceChanges /\ UNCHANGED tarvars
    \/ WaiterStep

\* the calling thread keeps running: a describe call returns or raises,
\* time.sleep returns
SpecWaitLive == InitWait /\ [][NextWaitLive]_vars /\ WF_vars(WaiterStep)

----------------------------------------------------------------------------
(* Properties of endpoint_creation_wait *)

IsSleep(e) == e.op = "sleep"

\* the positions of the describe calls in the log
CallPositions == { i \in 1..Len(log) : IsCall(log[i]) }

\* i and j are the positions of two consecutive describe calls
Consecutive(i, j) ==
    /\ i \in CallPositions /\ j \in CallPositions /\ i < j
    /\ \A k \in CallPositions : ~(i < k /\ k < j)

\* C1: when the waiter returns, the responses it received are n >= 0
\* responses with status "Creating" followed by one response with another
\* status; it made n+1 describe calls, slept n times, and returns the last
\* response. A call is never made after a response other than "Creating".
C1_CallsAndSleeps ==
    LET D == Calls(log)
        n == Len(D) - 1
    IN  /\ \A i \in 1..n : D[i].op = "describe" /\ D[i].resp.EndpointStatus = "Creating"
        /\ wpc = "done" =>
             /\ Len(D) >= 1
             /\ D[n + 1].op = "describe"
             /\ D[n + 1].resp.EndpointStatus # "Creating"
             /\ Len(SelectSeq(log, IsSleep)) = n
             /\ ret = D[n + 1].resp

\* the responses "Creating", "Creating", "InService": 3 calls, 2 sleeps
C1_Witness ==
    /\ wpc = "done"
    /\ Len(Calls(log)) = 3
    /\ Len(SelectSeq(log, IsSleep)) = 2
    /\ ret.EndpointStatus = "InService"

\* C2: between any two consecutive describe calls of one invocation there is
\* exactly one print of "Creating" and exactly one 15-second sleep, in that
\* order.
C2_PrintAndSleepBetweenCalls ==
    \A i, j \in 1..Len(log) :
        Consecutive(i, j) =>
            SubSeq(log, i + 1, j - 1) = <<PrintEvent("Creating"), SleepEvent(15)>>

\* C3: after a describe call that reports a status other than "Creating"
\* there is no further describe call and no sleep, and the value returned is
\* the response of that call.
C3_NothingAfterFinalStatus ==
    \A i \in 1..Len(log) :
        (log[i].op = "describe" /\ log[i].resp.EndpointStatus # "Creating") =>
            /\ \A j \in (i + 1)..Len(log) : ~IsCall(log[j]) /\ ~IsSleep(log[j])
            /\ wpc = "done" => ret = log[i].resp

\* C4: there is no timeout. If no describe call raises and every response
\* has status "Creating", the waiter never returns and makes describe calls
\* again and again; if the remote status eventually stays different from
\* "Creating" and no describe call raises, the waiter eventually returns.
C4_NoTimeout ==
    /\ [](wpc # "raised" /\ resp.EndpointStatus \in {"none", "Creating"})
          => ([](wpc # "done") /\ []<>(wpc = "print"))
    /\ (<>[](remote # "Creating") /\ [](wpc # "raised"))
          => <>(wpc = "done")

\* the loop has polled and the re-query found the endpoint out of "Creating"
C4_Witness ==
    /\ wpc = "sleep"
    /\ resp.EndpointStatus # "Creating"
    /\ remote # "Creating"

\* C5: a describe call that raises is the last thing the invocation does:
\* no describe call, print or sleep follows it, and nothing is returned.
C5_ErrorPropagates ==
    /\ \A i \in 1..Len(log) :
          log[i].op = "describe_error" =>
              i = Len(log) /\ wpc = "raised" /\ ret = NoResponse
    /\ wpc = "raised" => (log # <<>> /\ log[Len(log)].op = "describe_error")

\* a re-query inside the loop raised
C5_Witness ==
    /\ wpc = "raised"
    /\ Len(Calls(log)) >= 2
    /\ \E i \in 1..Len(log) : IsSleep(log[i])

----------------------------------------------------------------------------
(* Properties of create_tar *)

\* the last part of a path
FileName(p) == p[Len(p)]

IsHiddenName(nm) == nm[1] = "."

RECURSIVE Basename(_)
\* the part of an archive name after its last "/"
Basename(s) ==
    IF \E i \in 1..Len(s) : s[i] = "/" THEN Basename(Tail(s)) ELSE s

\* the archive has a member of this name
InArchive(nm) == \E i \in 1..Len(archive) : archive[i].name = nm

\* the name a file of the tree has relative to the source directory
RelName(p) == JoinParts(SubSeq(p, Len(local_path) + 1, Len(p)))

\* the directories above p, below the source directory
Ancestors(p) == { SubSeq(p, 1, m) : m \in (Len(local_path) + 1)..(Len(p) - 1) }

\* the paths the for loop handed to archive.add so far
AddedDirectly == { file_list[i] : i \in 1..(idx - 1) }

\* C6: the archive contains every regular file under the source directory
\* (the archive file itself aside), at any depth, whose filename does not
\* start with a dot, a file without any dot in its name included.
C6_EveryVisibleFileArchived ==
    tpc = "closed" =>
        \A n \in tree :
            ( /\ ~n.isdir
              /\ n.path # tarfile_name
              /\ ~IsHiddenName(FileName(n.path)) )
            => InArchive(RelName(n.path))

\* C7: the archive contains no entry whose filename (last path component)
\* begins with a dot, at any depth.
C7_NoDotfileArchived ==
    tpc = "closed" =>
        \A i \in 1..Len(archive) : ~IsHiddenName(Basename(archive[i].name))

\* C8: every entry name, of a member added by the loop or through the
\* recursion into a directory, is the path of the archived file relative to
\* the source directory: it is not absolute, the source directory's path
\* followed by it is the path of the file, and it is not that relative path
\* with the source directory's own name put in front.
C8_EntryNamesRelative ==
    \A i \in 1..Len(archive) :
        LET e == archive[i] IN
        /\ e.name # <<>>
        /\ e.name[1] # "/"
        /\ PathStr(local_path) \o <<"/">> \o e.name = PathStr(e.src)
        /\ e.name # FileName(local_path) \o <<"/">> \o RelName(e.src)

\* a closed archive with a member two levels down added by the loop and a
\* member added only through the recursion into a directory
C8_Witness ==
    /\ tpc = "closed"
    /\ \E i \in 1..Len(archive) :
          archive[i].src \in AddedDirectly /\ Len(archive[i].src) = Len(local_path) + 2
    /\ \E i \in 1..Len(archive) : archive[i].src \notin AddedDirectly

\* C9: the filter does not prune hidden directories: a file with a
\* non-hidden name (and, as in the example .cfg/model.txt, with an extension)
\* below a directory whose name begins with a dot is in the archive (the
\* archive file itself aside).
C9_HiddenDirectoryNotPruned ==
    tpc = "closed" =>
        \A n \in tree :
            ( /\ ~n.isdir
              /\ n.path # tarfile_name
              /\ ~IsHiddenName(FileName(n.path))
              /\ MatchesPattern(FileName(n.path))
              /\ \E a \in Ancestors(n.path) : IsHiddenName(FileName(a)) )
            => InArchive(RelName(n.path))

\* C10: no two entries of the archive have the same name.
C10_NoDuplicateEntries ==
    tpc = "closed" =>
        \A i, j \in 1..Len(archive) : i # j => archive[i].name # archive[j].name

====
